---- MODULE Spec2Model ----
(***************************************************************************)
(* Real-time presence and notification fan-out of the chat backend.        *)
(*                                                                         *)
(* The socket server (setupSocketServer) keeps two process-wide maps:      *)
(*   onlineUsers       : userId -> Set of socket ids   (Connection Registry)*)
(*   userActiveChannel : userId -> room id             (Active-Room Tracker)*)
(* The notification service reads both maps when a message is created.     *)
(* Node runs every handler to completion; a handler is one action here,     *)
(* and an async function is split at its awaits.                            *)
(***************************************************************************)
EXTENDS Naturals, FiniteSets, Sequences, TLC

\* ------------------------------------------------------------------ bounds
Users == {"u1", "u2", "u3"}
Sessions == {"s1", "s2"}
\* the users are interchangeable: the author of the message is named u1,
\* and is a user like the others (may be a member, may be connected)
Senders == {"u1"}
Channels == {"c1"}
Conversations == {"d1"}
Rooms == Channels \cup Conversations
None == "undefined"
MessageIds == {"m1"}
\* how many connection events one socket id may be delivered (SpecRegistry)
MaxRegistrations == 2

VARIABLES
  onlineUsers,        \* Map<string, Set<string>>: a function on its keys
  userActiveChannel,  \* Map<string, string>: a function on its keys
  sockets,            \* connected sockets: id -> [userId, rooms]
  lastEvent,          \* the socket handler that ran last
  out,                \* the events that handler emitted
  reports,            \* per user: first-session reports since the last drain
  fan,                \* the notification fan-out in flight, and its locals
  notifications,      \* the rows of the notifications table
  request,            \* the call served last: a presence query, a body
  response            \* what that call answered

vars == <<onlineUsers, userActiveChannel, sockets, lastEvent, out, reports,
          fan, notifications, request, response>>
registry == <<onlineUsers, userActiveChannel, sockets>>
socketLog == <<lastEvent, out, reports>>
fanout == <<fan, notifications>>
http == <<request, response>>

\* ------------------------------------------------------------ Map helpers
MapHas(m, k) == k \in DOMAIN m
MapGet(m, k) == IF k \in DOMAIN m THEN m[k] ELSE None
MapSet(m, k, v) == [x \in DOMAIN m \cup {k} |-> IF x = k THEN v ELSE m[x]]
MapDelete(m, k) == [x \in DOMAIN m \ {k} |-> m[x]]
EmptyMap == [x \in {} |-> None]

\* ------------------------------------------------------------- emissions
Emit(ev, to, userId, users, room) ==
  [ev |-> ev, to |-> to, userId |-> userId, users |-> users, room |-> room]

\* count: the connection events the socket had been delivered
\* verified: for a connection, the user id authenticateSocket verified
Event(op, sid, userId, room, count) ==
  [op |-> op, sid |-> sid, userId |-> userId, room |-> room, count |-> count,
   verified |-> None]

\* io.getOnlineUsers(): Array.from(onlineUsers.keys())
getOnlineUsers == DOMAIN onlineUsers

\* ------------------------------------------------- Connection Registry
\* if (!onlineUsers.has(userId)) onlineUsers.set(userId, new Set());
\* onlineUsers.get(userId).add(sessionId);
registerSocket(m, userId, sessionId) ==
  MapSet(m, userId,
         (IF MapHas(m, userId) THEN m[userId] ELSE {}) \cup {sessionId})

\* mutant: every connection counts as the first
isFirstConnectionAny(userSockets) == Cardinality(userSockets) >= 1

\* onlineUsers.get(userId).size === 1
isFirstConnection(userSockets) == Cardinality(userSockets) = 1

\* mutant: the Set keeps the session
deleteSocketKept(userSockets, sessionId) == userSockets

\* userSockets.delete(sessionId)
deleteSocket(userSockets, sessionId) == userSockets \ {sessionId}

\* mutant: a Set left with one session counts as emptied
isLastConnectionOrOne(userSockets) == Cardinality(userSockets) <= 1

\* userSockets.size === 0
isLastConnection(userSockets) == Cardinality(userSockets) = 0

\* mutant: the emptied Set stays in the Map
unregisterSocketKeepsKey(m, userId, sessionId) ==
  MapSet(m, userId, deleteSocket(m[userId], sessionId))

\* the registry after the disconnect handler's body for (userId, sessionId)
unregisterSocket(m, userId, sessionId) ==
  LET userSockets == deleteSocket(m[userId], sessionId)
  IN IF isLastConnection(userSockets)
     THEN MapDelete(m, userId)
     ELSE MapSet(m, userId, userSockets)

\* --------------------------------------------------- Active-Room Tracker
\* mutant: a room already recorded stays
setActiveRoomFirstWins(m, userId, roomId) ==
  IF MapHas(m, userId) THEN m ELSE MapSet(m, userId, roomId)

\* userActiveChannel.set(socket.data.userId, roomId)
setActiveRoom(m, userId, roomId) == MapSet(m, userId, roomId)

\* mutant: the leave clears whatever room is recorded
clearActiveRoomUnguarded(m, userId, roomId) == MapDelete(m, userId)

\* const current = userActiveChannel.get(userId);
\* if (current === roomId) userActiveChannel.delete(userId);
clearActiveRoom(m, userId, roomId) ==
  IF MapGet(m, userId) = roomId THEN MapDelete(m, userId) ELSE m

\* --------------------------------------------------------- socket rooms
\* mutant: the relay goes to every connected socket
socketsInRoomAny(roomId) == DOMAIN sockets

\* socket.to(roomId): the connected sockets subscribed to roomId, but sid
socketsInRoom(roomId) == {t \in DOMAIN sockets : roomId \in sockets[t].rooms}

\* socket.handshake.auth?.userId || socket.handshake.query?.userId
handshakeUserId(auth, query) == IF auth # None THEN auth ELSE query

\* mutant: no socket is admitted while a fan-out awaits the database
authenticateSocketWhenIdle(auth, query) ==
  /\ fan.pc \notin {"query", "insert"}
  /\ (IF auth # None THEN auth ELSE query) \in Users

\* authenticateSocket: auth?.userId || query?.userId must name a user
authenticateSocket(auth, query) ==
  (IF auth # None THEN auth ELSE query) \in Users

\* found: the query returned a row; settled: how the promise of the call
\* settled; status: the status createMessage answered with;
\* sessionsAtCall (history): the sessions of users other than the author
\* that were open when createMessage made the call
NoFan ==
  [pc |-> "idle", kind |-> None, room |-> None, senderId |-> None,
   messageId |-> None, members |-> {}, unseen |-> {}, inserted |-> FALSE,
   pushed |-> {}, found |-> FALSE, settled |-> None, status |-> None,
   sessionsAtCall |-> 0]

\* no call served yet
NoRequest == [op |-> None, input |-> <<>>]
NoResponse == [status |-> None, data |-> <<>>]

Init ==
  /\ onlineUsers = EmptyMap
  /\ userActiveChannel = EmptyMap
  /\ sockets = EmptyMap
  /\ lastEvent = Event("init", None, None, None, 0)
  /\ out = {}
  /\ reports = [u \in Users |-> 0]
  /\ fan = NoFan
  /\ notifications = {}
  /\ request = NoRequest
  /\ response = NoResponse

\* ------------------------------------------------------ socket handlers
\* mutant: the handler registers the socket whether or not it has a user id
connectionHandlerUnchecked(sid, userId, username) ==
  /\ sockets' = MapSet(sockets, sid,
                  [userId |-> userId, username |-> username,
                   rooms |-> IF MapHas(sockets, sid)
                             THEN sockets[sid].rooms ELSE {},
                   connections |-> IF MapHas(sockets, sid)
                                   THEN sockets[sid].connections + 1 ELSE 1])
  /\ onlineUsers' = registerSocket(onlineUsers, userId, sid)
  /\ UNCHANGED userActiveChannel

\* io.on("connection"): what the handler does to the maps, for socket sid
\* whose handshake carries auth.userId = userId; socket.data.username stays
\* as authenticateSocket set it, the name of the user it verified
connectionHandler(sid, userId, username) ==
  /\ sockets' = MapSet(sockets, sid,
                  [userId |-> userId, username |-> username,
                   rooms |-> IF MapHas(sockets, sid)
                             THEN sockets[sid].rooms ELSE {},
                   connections |-> IF MapHas(sockets, sid)
                                   THEN sockets[sid].connections + 1 ELSE 1])
  /\ onlineUsers' = IF userId # None
                    THEN registerSocket(onlineUsers, userId, sid)
                    ELSE onlineUsers
  /\ UNCHANGED userActiveChannel

\* mutant: the size is the one read before another connection registered
reportsFirstSessionStale(sid, userId) ==
  /\ userId # None
  /\ Cardinality(registerSocket(onlineUsers, userId, sid)[userId]) <= 2

\* what the connection handler emits: userOnline to the other sockets and
\* the onlineUsers snapshot to sid, on the first connection only
reportsFirstSession(sid, userId) ==
  /\ userId # None
  /\ isFirstConnection(registerSocket(onlineUsers, userId, sid)[userId])

\* mutant: userOnline goes out with io.emit, to the connecting socket too
connectionEmitsToAll(sid, userId) ==
  LET registered == registerSocket(onlineUsers, userId, sid)
  IN IF reportsFirstSession(sid, userId)
     THEN {Emit("userOnline", t, userId, {}, None) :
             t \in DOMAIN sockets \cup {sid}}
          \cup {Emit("onlineUsers", sid, None, DOMAIN registered, None)}
     ELSE {}

\* socket.broadcast.emit("userOnline"); socket.emit("onlineUsers")
connectionEmits(sid, userId) ==
  LET registered == registerSocket(onlineUsers, userId, sid)
  IN IF reportsFirstSession(sid, userId)
     THEN {Emit("userOnline", t, userId, {}, None) :
             t \in DOMAIN sockets \ {sid}}
          \cup {Emit("onlineUsers", sid, None, DOMAIN registered, None)}
     ELSE {}

\* mutant: every connection is sent the snapshot
connectionSendsSnapshot(sid, auth, query) ==
  /\ authenticateSocket(auth, query)
  /\ connectionHandler(sid, auth, handshakeUserId(auth, query))
  /\ out' = connectionEmits(sid, auth) \cup
              {Emit("onlineUsers", sid, None,
                    IF auth # None
                    THEN DOMAIN registerSocket(onlineUsers, auth, sid)
                    ELSE DOMAIN onlineUsers, None)}
  /\ lastEvent' = [Event("connection", sid, auth, None,
                         sockets'[sid].connections)
                     EXCEPT !.verified = handshakeUserId(auth, query)]
  /\ reports' = IF reportsFirstSession(sid, auth)
                THEN [reports EXCEPT ![auth] = @ + 1]
                ELSE reports
  /\ UNCHANGED <<fanout, http>>

\* io.on("connection"), for a socket authenticateSocket let through
connection(sid, auth, query) ==
  /\ authenticateSocket(auth, query)
  /\ connectionHandler(sid, auth, handshakeUserId(auth, query))
  /\ out' = connectionEmits(sid, auth)
  /\ lastEvent' = [Event("connection", sid, auth, None,
                         sockets'[sid].connections)
                     EXCEPT !.verified = handshakeUserId(auth, query)]
  /\ reports' = IF reportsFirstSession(sid, auth)
                THEN [reports EXCEPT ![auth] = @ + 1]
                ELSE reports
  /\ UNCHANGED <<fanout, http>>

\* the connection handler runs again for an open socket: the same
\* (userId, sessionId) pair is registered once more
Reconnect ==
  \E sid \in DOMAIN sockets :
    /\ sockets[sid].connections < MaxRegistrations
    /\ IF sockets[sid].userId = None THEN TRUE
       ELSE reports[sockets[sid].userId] < MaxRegistrations
    /\ connection(sid, sockets[sid].userId,
                  IF sockets[sid].userId = None
                  THEN sockets[sid].username ELSE None)

\* a new transport connection: socket.io gives it an id no open socket has
Connect ==
  \E sid \in Sessions \ DOMAIN sockets :
    \E auth \in Users \cup {None}, query \in Users \cup {None} :
      connection(sid, auth, query)

\* mutant: the snapshot goes out with io.emit, to every socket
requestOnlineUsersToAll ==
  \E sid \in DOMAIN sockets :
    /\ out' = {Emit("onlineUsers", t, None, getOnlineUsers, None) :
                 t \in DOMAIN sockets}
    /\ lastEvent' = Event("requestOnlineUsers", sid, sockets[sid].userId, None,
                        sockets[sid].connections)
    /\ UNCHANGED <<registry, reports, fanout, http>>

\* socket.on("requestOnlineUsers")
requestOnlineUsers ==
  \E sid \in DOMAIN sockets :
    /\ out' = {Emit("onlineUsers", sid, None, getOnlineUsers, None)}
    /\ lastEvent' = Event("requestOnlineUsers", sid, sockets[sid].userId, None,
                        sockets[sid].connections)
    /\ UNCHANGED <<registry, reports, fanout, http>>

\* socket.on("joinRoom")
joinRoomHandler(sid, roomId) ==
  /\ sockets' = [sockets EXCEPT ![sid].rooms = @ \cup {roomId}]
  /\ userActiveChannel' =
       setActiveRoom(userActiveChannel, sockets[sid].userId, roomId)
  /\ UNCHANGED onlineUsers

joinRoom ==
  \E sid \in DOMAIN sockets, roomId \in Rooms :
    /\ joinRoomHandler(sid, roomId)
    /\ lastEvent' = Event("joinRoom", sid, sockets[sid].userId, roomId,
                        sockets[sid].connections)
    /\ out' = {}
    /\ UNCHANGED <<reports, fanout, http>>

\* socket.on("leaveRoom")
leaveRoomHandler(sid, roomId) ==
  /\ sockets' = [sockets EXCEPT ![sid].rooms = @ \ {roomId}]
  /\ userActiveChannel' =
       clearActiveRoom(userActiveChannel, sockets[sid].userId, roomId)
  /\ UNCHANGED onlineUsers

leaveRoom ==
  \E sid \in DOMAIN sockets, roomId \in Rooms :
    /\ leaveRoomHandler(sid, roomId)
    /\ lastEvent' = Event("leaveRoom", sid, sockets[sid].userId, roomId,
                        sockets[sid].connections)
    /\ out' = {}
    /\ UNCHANGED <<reports, fanout, http>>

\* socket.on("startTyping")
startTyping ==
  \E sid \in DOMAIN sockets, roomId \in Rooms :
    /\ out' = {Emit("typing", t, sockets[sid].userId, {}, roomId) :
                 t \in socketsInRoom(roomId) \ {sid}}
    /\ lastEvent' = Event("startTyping", sid, sockets[sid].userId, roomId,
                        sockets[sid].connections)
    /\ UNCHANGED <<registry, reports, fanout, http>>

\* socket.on("userStoppedTyping")
userStoppedTyping ==
  \E sid \in DOMAIN sockets, roomId \in Rooms :
    /\ out' = {Emit("userStoppedTyping", t, sockets[sid].userId, {}, None) :
                 t \in socketsInRoom(roomId) \ {sid}}
    /\ lastEvent' = Event("userStoppedTyping", sid, sockets[sid].userId, roomId,
                        sockets[sid].connections)
    /\ UNCHANGED <<registry, reports, fanout, http>>

\* socket.on("disconnect"): the socket has left the namespace and its rooms
disconnectHandler(sid) ==
  LET userId == sockets[sid].userId
  IN /\ sockets' = MapDelete(sockets, sid)
     /\ onlineUsers' = IF userId # None /\ MapHas(onlineUsers, userId)
                       THEN unregisterSocket(onlineUsers, userId, sid)
                       ELSE onlineUsers
     /\ UNCHANGED userActiveChannel

\* mutant: every disconnect of a registered user counts as the last
drainsAlways(sid) ==
  LET userId == sockets[sid].userId
  IN userId # None /\ MapHas(onlineUsers, userId)

\* the disconnect of sid empties its user's Set
drains(sid) ==
  LET userId == sockets[sid].userId
  IN /\ userId # None
     /\ MapHas(onlineUsers, userId)
     /\ isLastConnection(deleteSocket(onlineUsers[userId], sid))

\* io.emit("userOffline") when the handler emptied the user's Set
disconnectEmits(sid) ==
  LET userId == sockets[sid].userId
  IN IF drains(sid)
     THEN {Emit("userOffline", t, userId, {}, None) :
             t \in DOMAIN sockets \ {sid}}
     ELSE {}

\* the session sid disconnects: socket.io calls the handler as it closes
disconnectOf(sid) ==
  /\ MapHas(sockets, sid)
  /\ disconnectHandler(sid)
  /\ out' = disconnectEmits(sid)
  /\ lastEvent' = Event("disconnect", sid, sockets[sid].userId, None,
                        sockets[sid].connections)
  /\ reports' = IF drains(sid)
                THEN [reports EXCEPT ![sockets[sid].userId] = 0]
                ELSE reports
  /\ UNCHANGED <<fanout, http>>

disconnect == \E sid \in DOMAIN sockets : disconnectOf(sid)

Next ==
  \/ Connect
  \/ requestOnlineUsers
  \/ joinRoom
  \/ leaveRoom
  \/ startTyping
  \/ userStoppedTyping
  \/ disconnect

Spec == Init /\ [][Next]_vars

\* ------------------------------------------- Notification Fan-out Engine
\* mutant: only offline members are unseen
isUnseenOfflineOnly(userId, senderId, channelId) ==
  userId # senderId /\ userId \notin getOnlineUsers

\* the unseenUsers filter, for one member of channel.server.members
isUnseen(userId, senderId, channelId) ==
  IF userId = senderId THEN FALSE
  ELSE IF userId \notin getOnlineUsers THEN TRUE
  ELSE MapGet(userActiveChannel, userId) # channelId

\* mutant: with no other session open when the call was made, every other
\* member is classified as it was then
unseenUsersAtCall(allMembers, senderId, channelId) ==
  IF fan.sessionsAtCall = 0
  THEN allMembers \ {senderId}
  ELSE {userId \in allMembers : isUnseen(userId, senderId, channelId)}

\* allMembers.filter(...)
unseenUsers(allMembers, senderId, channelId) ==
  {userId \in allMembers : isUnseen(userId, senderId, channelId)}

\* conversation.memberOne.userId === senderId ? memberTwo : memberOne
recipientMember(memberOne, memberTwo, senderId) ==
  IF memberOne = senderId THEN memberTwo ELSE memberOne

\* mutant: the recorded room alone decides, online or not
isViewingConversationByRoom(recipientId, conversationId) ==
  MapGet(userActiveChannel, recipientId) = conversationId

\* onlineUsers.includes(recipientId) &&
\* userActiveChannel.get(recipientId) === conversationId
isViewingConversation(recipientId, conversationId) ==
  /\ recipientId \in getOnlineUsers
  /\ MapGet(userActiveChannel, recipientId) = conversationId

\* mutant: the rows are inserted as read
notificationValuesRead(type, userIds, roomId, messageId, senderId) ==
  {[userId |-> u, type |-> type, room |-> roomId, messageId |-> messageId,
    senderId |-> senderId, isRead |-> TRUE] : u \in userIds}

\* the rows handed to db.insert(notifications).values(...)
notificationValues(type, userIds, roomId, messageId, senderId) ==
  {[userId |-> u, type |-> type, room |-> roomId, messageId |-> messageId,
    senderId |-> senderId, isRead |-> FALSE] : u \in userIds}

\* mutant: one socket of the user is pushed to
pushTargetsOne(userId) ==
  IF MapHas(onlineUsers, userId)
  THEN {CHOOSE sid \in onlineUsers[userId] : TRUE}
  ELSE {}

\* const userSockets = onlineUsersMap.get(member.userId);
\* if (userSockets && userSockets.size > 0) for (const socketId of userSockets)
pushTargets(userId) ==
  IF MapHas(onlineUsers, userId) THEN onlineUsers[userId] ELSE {}

\* mutant: a member without a session ends the push loop for all
newNotificationsAllOrNone(userIds) ==
  IF \E u \in userIds : pushTargets(u) = {}
  THEN {}
  ELSE UNION {{[userId |-> u, to |-> sid] : sid \in pushTargets(u)} :
                u \in userIds}

\* the push loop: io.to(socketId).emit("newNotification", {userId, ...})
newNotifications(userIds) ==
  UNION {{[userId |-> u, to |-> sid] : sid \in pushTargets(u)} : u \in userIds}

\* mutant: the catch throws the error on
settleRethrows(threw) == IF threw THEN "rejected" ELSE "resolved"

\* try { ... } catch (error) { console.error(...) }: the promise of the call
\* resolves, whether its body returned or threw
settle(threw) == "resolved"

\* createMessage awaits the call and answers 201; its catch answers 500.
\* Nothing in the sources calls createNotificationsForDM.
respond(kind, settled) ==
  IF kind # "CHANNEL_MESSAGE" THEN None
  ELSE IF settled = "resolved" THEN "201" ELSE "500"

\* the call ends: its promise settles, and its caller answers
returned(f, threw) ==
  [f EXCEPT !.pc = "done", !.settled = settle(threw),
            !.status = respond(f.kind, settle(threw))]

\* mutant: a missing channel or conversation is thrown to the caller
throwNotFound(f) ==
  [f EXCEPT !.pc = "done", !.settled = "rejected",
            !.status = respond(f.kind, "rejected")]

\* if (!channel) return;   if (!conversation) return;
returnNotFound(f) == returned(f, FALSE)

\* createNotificationsForOfflineUsers is called; it awaits the channel query
createNotificationsForOfflineUsers ==
  \E channelId \in Channels, senderId \in Senders, messageId \in MessageIds :
    /\ fan.pc = "idle"
    /\ fan' = [NoFan EXCEPT !.pc = "query", !.kind = "CHANNEL_MESSAGE",
                            !.room = channelId, !.senderId = senderId,
                            !.messageId = messageId]
    /\ UNCHANGED <<registry, socketLog, notifications, http>>

\* the channel query resolves: no channel, or its server's members; the
\* function classifies them and awaits the insert of their rows
channelResolved ==
  /\ fan.pc = "query"
  /\ fan.kind = "CHANNEL_MESSAGE"
  /\ \E found \in BOOLEAN, allMembers \in SUBSET Users :
       LET unseen == unseenUsers(allMembers, fan.senderId, fan.room)
       IN IF ~ found
          THEN fan' = returnNotFound(fan)
          ELSE IF unseen = {}
          THEN fan' = returned([fan EXCEPT !.found = TRUE,
                                           !.members = allMembers], FALSE)
          ELSE fan' = [fan EXCEPT !.pc = "insert", !.found = TRUE,
                                  !.members = allMembers, !.unseen = unseen]
  /\ UNCHANGED <<registry, socketLog, notifications, http>>

\* createNotificationsForDM is called; it awaits the conversation query
createNotificationsForDM ==
  \E conversationId \in Conversations, senderId \in Senders,
     messageId \in MessageIds :
    /\ fan.pc = "idle"
    /\ fan' = [NoFan EXCEPT !.pc = "query", !.kind = "DIRECT_MESSAGE",
                            !.room = conversationId, !.senderId = senderId,
                            !.messageId = messageId]
    /\ UNCHANGED <<registry, socketLog, notifications, http>>

\* the conversation query resolves: no conversation, or its two members
conversationResolved ==
  /\ fan.pc = "query"
  /\ fan.kind = "DIRECT_MESSAGE"
  /\ \E found \in BOOLEAN, memberOne \in Users, memberTwo \in Users :
       LET recipientId == recipientMember(memberOne, memberTwo, fan.senderId)
       IN IF ~ found
          THEN fan' = returnNotFound(fan)
          ELSE IF isViewingConversation(recipientId, fan.room)
          THEN fan' = returned([fan EXCEPT
                                  !.found = TRUE,
                                  !.members = {memberOne, memberTwo}], FALSE)
          ELSE fan' = [fan EXCEPT !.pc = "insert", !.found = TRUE,
                                  !.members = {memberOne, memberTwo},
                                  !.unseen = {recipientId}]
  /\ UNCHANGED <<registry, socketLog, notifications, http>>

\* mutant: the push loop runs before the insert is awaited
insertResolvedPushFirst ==
  /\ fan.pc = "insert"
  /\ \E ok \in BOOLEAN :
       IF ok
       THEN /\ notifications' = notifications \cup
                 notificationValues(fan.kind, fan.unseen, fan.room,
                                    fan.messageId, fan.senderId)
            /\ fan' = returned([fan EXCEPT
                                  !.inserted = TRUE,
                                  !.pushed = newNotifications(fan.unseen)],
                                FALSE)
       ELSE /\ notifications' = notifications
            /\ fan' = returned([fan EXCEPT
                                  !.pushed = newNotifications(fan.unseen)],
                                TRUE)
  /\ UNCHANGED <<registry, socketLog, http>>

\* await db.insert(notifications) resolves, and the push loop runs; or it
\* rejects, and the catch logs the error
insertResolved ==
  /\ fan.pc = "insert"
  /\ \E ok \in BOOLEAN :
       IF ok
       THEN /\ notifications' = notifications \cup
                 notificationValues(fan.kind, fan.unseen, fan.room,
                                    fan.messageId, fan.senderId)
            /\ fan' = returned([fan EXCEPT
                                  !.inserted = TRUE,
                                  !.pushed = newNotifications(fan.unseen)],
                                FALSE)
       ELSE /\ notifications' = notifications
            /\ fan' = returned(fan, TRUE)
  /\ UNCHANGED <<registry, socketLog, http>>

\* the socket handlers as the fan-out sees them: their effect on the maps
socketConnection ==
  \E sid \in Sessions \ DOMAIN sockets, auth \in Users :
    /\ authenticateSocket(auth, None)
    /\ connectionHandler(sid, auth, handshakeUserId(auth, None))
    /\ UNCHANGED <<socketLog, fanout, http>>

socketJoinRoom ==
  \E sid \in DOMAIN sockets, roomId \in Rooms :
    joinRoomHandler(sid, roomId) /\ UNCHANGED <<socketLog, fanout, http>>

socketLeaveRoom ==
  \E sid \in DOMAIN sockets, roomId \in Rooms :
    leaveRoomHandler(sid, roomId) /\ UNCHANGED <<socketLog, fanout, http>>

socketDisconnect ==
  \E sid \in DOMAIN sockets :
    disconnectHandler(sid) /\ UNCHANGED <<socketLog, fanout, http>>

NextFanout ==
  \/ socketConnection
  \/ socketJoinRoom
  \/ socketLeaveRoom
  \/ socketDisconnect
  \/ createNotificationsForOfflineUsers
  \/ channelResolved
  \/ createNotificationsForDM
  \/ conversationResolved
  \/ insertResolved

SpecFanout == Init /\ [][NextFanout]_vars

\* the Connection Registry under repeated registration of a pair
NextRegistry ==
  \/ Connect
  \/ Reconnect
  \/ disconnect

SpecRegistry == Init /\ [][NextRegistry]_vars

\* sessions come and go, and every open session disconnects in the end:
\* the client closes it, or the heartbeat of socket.io times it out
NextLive ==
  \/ Connect
  \/ disconnect

SpecLive ==
  /\ Init
  /\ [][NextLive]_vars
  /\ \A sid \in Sessions : WF_vars(disconnectOf(sid))

\* ------------------------------------------------------ presence queries
\* the characters a query string is made of, and how long it may be
Chars == {"a", "b", " ", ","}
MaxQueryLen == 4
QueryStrings == UNION {[1..n -> Chars] : n \in 0..MaxQueryLen}
\* the user ids as they are written in a query string
idText == [u \in Users |->
             IF u = "u1" THEN <<"a">>
             ELSE IF u = "u2" THEN <<"b">> ELSE <<"a", "b">>]
Null == "null"

\* String.prototype.split(","): the pieces between the commas, the empty
\* ones included
RECURSIVE split(_)
split(s) ==
  IF \A i \in 1..Len(s) : s[i] # ","
  THEN <<s>>
  ELSE LET i == CHOOSE i \in 1..Len(s) :
                  s[i] = "," /\ \A j \in 1..(i - 1) : s[j] # ","
       IN <<SubSeq(s, 1, i - 1)>> \o split(SubSeq(s, i + 1, Len(s)))

\* String.prototype.trim(): without the white space at either end
RECURSIVE trimStart(_)
trimStart(s) ==
  IF s # <<>> /\ s[1] = " " THEN trimStart(Tail(s)) ELSE s
RECURSIVE trimEnd(_)
trimEnd(s) ==
  IF s # <<>> /\ s[Len(s)] = " "
  THEN trimEnd(SubSeq(s, 1, Len(s) - 1)) ELSE s
trim(s) == trimEnd(trimStart(s))

\* userIds.split(",").filter((id) => id.trim() !== "")
isKept(id) == trim(id) # <<>>
userIdArray(userIds) == SelectSeq(split(userIds), isKept)

\* mutant: any user online makes the id online
includesAny(onlineList, userId) == onlineList # {}

\* onlineUsers.includes(userId)
includes(onlineList, userId) == \E u \in onlineList : idText[u] = userId

\* { isOnline: onlineUsers.includes(userId), lastSeen: null }
presenceOf(userId) ==
  [isOnline |-> includes(getOnlineUsers, userId), lastSeen |-> Null]

\* userIdArray.forEach((userId) => { presence[userId] = {...} })
presence(ids) == [userId \in {ids[i] : i \in 1..Len(ids)} |-> presenceOf(userId)]

\* GET /api/notifications/presence?userIds=...
\* (a behaviour serves one presence query, at any point of it)
usersPresence(userIds) ==
  /\ request = NoRequest
  /\ request' = [op |-> "getUsersPresence", input |-> userIds]
  /\ response' = IF userIds = <<>>
                 THEN [status |-> "400", data |-> <<>>]
                 ELSE [status |-> "200",
                       data |-> presence(userIdArray(userIds))]
  /\ lastEvent' = Event("getUsersPresence", None, None, None, 0)
  /\ out' = {}
  /\ UNCHANGED <<registry, reports, fanout>>

getUsersPresence == \E userIds \in QueryStrings : usersPresence(userIds)

\* GET /api/notifications/presence/:userId
userPresence(userId) ==
  /\ request = NoRequest
  /\ request' = [op |-> "getUserPresence", input |-> userId]
  /\ response' = IF userId = <<>>
                 THEN [status |-> "400", data |-> <<>>]
                 ELSE [status |-> "200", data |-> presenceOf(userId)]
  /\ lastEvent' = Event("getUserPresence", None, None, None, 0)
  /\ out' = {}
  /\ UNCHANGED <<registry, reports, fanout>>

getUserPresence == \E userId \in QueryStrings : userPresence(userId)

NextPresence ==
  \/ Connect
  \/ disconnect
  \/ getUsersPresence
  \/ getUserPresence

SpecPresence == Init /\ [][NextPresence]_vars

\* ---------------------------------------------------- notification body
\* content.substring(0, 100), content.length > 100
ExcerptLength == 100
MaxContentLen == 102
glyph(i) == IF i % 3 = 0 THEN "x" ELSE IF i % 3 = 1 THEN "y" ELSE "z"
\* the message contents: one of every length, from three starting glyphs
Contents ==
  {[i \in 1..n |-> glyph(i + k)] : n \in 0..MaxContentLen, k \in 0..2}
SenderName == <<"N">>

\* String.prototype.substring(start, end), for 0 <= start <= end
substring(s, start, end) ==
  SubSeq(s, start + 1, IF end < Len(s) THEN end ELSE Len(s))

\* mutant: a content of 100 characters gets the dots too
ellipsisFrom(content) ==
  IF Len(content) >= ExcerptLength THEN <<".", ".", ".">> ELSE <<>>

\* content.length > 100 ? "..." : ""
ellipsis(content) ==
  IF Len(content) > ExcerptLength THEN <<".", ".", ".">> ELSE <<>>

\* message of a row of notificationValues: `${senderName}: ${...}${...}`
channelRecordMessage(senderName, content) ==
  senderName \o <<":", " ">> \o substring(content, 0, ExcerptLength)
             \o ellipsis(content)

\* message of the newNotification pushed for a channel message
channelEventMessage(senderName, content) ==
  senderName \o <<":", " ">> \o substring(content, 0, ExcerptLength)
             \o ellipsis(content)

\* message of notificationValue: `${...}${...}`
dmRecordMessage(content) ==
  substring(content, 0, ExcerptLength) \o ellipsis(content)

\* message of the newNotification pushed for a direct message
dmEventMessage(content) ==
  substring(content, 0, ExcerptLength) \o ellipsis(content)

\* createNotificationsForOfflineUsers builds the two messages from content
channelMessageBody ==
  \E content \in Contents :
    /\ request' = [op |-> "CHANNEL_MESSAGE", input |-> content]
    /\ response' = [status |-> None,
                    data |-> [record |-> channelRecordMessage(SenderName,
                                                              content),
                              event |-> channelEventMessage(SenderName,
                                                            content)]]
    /\ UNCHANGED <<registry, socketLog, fanout>>

\* createNotificationsForDM builds the two messages from content
directMessageBody ==
  \E content \in Contents :
    /\ request' = [op |-> "DIRECT_MESSAGE", input |-> content]
    /\ response' = [status |-> None,
                    data |-> [record |-> dmRecordMessage(content),
                              event |-> dmEventMessage(content)]]
    /\ UNCHANGED <<registry, socketLog, fanout>>

NextBody ==
  \/ channelMessageBody
  \/ directMessageBody

SpecBody == Init /\ [][NextBody]_vars

\* ------------------------------------------------------ message creation
\* The controllers log what they have done, in order, in response.data.
\* (a behaviour serves one creation request)

\* what the services throw, as the catch of a controller tells them apart
Errors == {"Missing required fields", "not found", "other"}

\* catch (error): 400, 404 or 500 by error.message
catchStatus(error) ==
  IF error = "Missing required fields" THEN "400"
  ELSE IF error = "not found" THEN "404" ELSE "500"

\* if (!profileId) return res.status(401); otherwise the service is awaited
begin(op, profileId) ==
  /\ request = NoRequest
  /\ fan.pc = "idle"
  /\ request' = [op |-> op, input |-> <<>>]
  /\ response' = [status |-> IF profileId = None THEN "401" ELSE None,
                  data |-> <<>>]
  /\ UNCHANGED <<registry, socketLog, fanout>>

\* POST /api/messages: createMessage starts and awaits
\* messagesService.createMessage
createMessage ==
  \E profileId \in Senders \cup {None} : begin("createMessage", profileId)

\* the sessions of users other than the author that are open now
sessionsOfOthers(senderId) ==
  Cardinality({s \in DOMAIN sockets : sockets[s].userId # senderId})

\* the service resolves with the persisted message: the controller emits it
\* to the channel's room, calls createNotificationsForOfflineUsers and
\* awaits it; or the service throws, and the catch answers the error
messageCreated ==
  /\ request.op = "createMessage"
  /\ response.status = None /\ response.data = <<>>
  /\ \E ok \in BOOLEAN, error \in Errors, channelId \in Channels,
        senderId \in Senders, messageId \in MessageIds :
       IF ok
       THEN /\ response' = [status |-> None,
                            data |-> <<"persisted", "emitted", "fanout">>]
            /\ fan' = [NoFan EXCEPT
                         !.pc = "query", !.kind = "CHANNEL_MESSAGE",
                         !.room = channelId, !.senderId = senderId,
                         !.messageId = messageId,
                         !.sessionsAtCall = sessionsOfOthers(senderId)]
       ELSE /\ response' = [status |-> catchStatus(error), data |-> <<>>]
            /\ fan' = fan
  /\ UNCHANGED <<registry, socketLog, notifications, request>>

\* the awaited call has settled: res.status(201), or the catch
createMessageResponds ==
  /\ request.op = "createMessage"
  /\ response.status = None
  /\ fan.pc = "done"
  /\ response' = [status |-> fan.status,
                  data |-> Append(response.data, "responded")]
  /\ UNCHANGED <<registry, socketLog, fanout, request>>

\* POST /api/direct-messages: createDirectMessage starts and awaits
\* directMessagesService.createDirectMessage
createDirectMessage ==
  \E profileId \in Senders \cup {None} :
    begin("createDirectMessage", profileId)

\* the service resolves with the persisted message: the controller emits it
\* to the conversation's room and answers 201; or the service throws
directMessageCreated ==
  /\ request.op = "createDirectMessage"
  /\ response.status = None
  /\ \E ok \in BOOLEAN, error \in Errors :
       response' = IF ok
                   THEN [status |-> "201",
                         data |-> <<"persisted", "emitted", "responded">>]
                   ELSE [status |-> catchStatus(error), data |-> <<>>]
  /\ UNCHANGED <<registry, socketLog, fanout, request>>

NextCreate ==
  \/ socketConnection
  \/ socketJoinRoom
  \/ socketLeaveRoom
  \/ socketDisconnect
  \/ createMessage
  \/ messageCreated
  \/ channelResolved
  \/ insertResolved
  \/ createMessageResponds
  \/ createDirectMessage
  \/ directMessageCreated

SpecCreate == Init /\ [][NextCreate]_vars

\* ------------------------------------------- operations that only read
\* The fan-out, the presence queries and the typing relays, run on a
\* registry and a tracker that sessions have filled and on a notifications
\* table that holds the rows of an earlier message, read or not.
EarlierMessage == "m0"
EarlierRows ==
  {[userId |-> u, type |-> "CHANNEL_MESSAGE", room |-> "c1",
    messageId |-> EarlierMessage, senderId |-> "u1", isRead |-> read] :
     u \in {"u2"}, read \in BOOLEAN}

\* s1 is connected as user a and has joined room r, or none; s2 is connected
\* as user b, or is not connected
InitFrame ==
  \E a \in Users, b \in Users \cup {None}, r \in Rooms \cup {None},
     rows \in SUBSET EarlierRows :
    LET socket(u, rooms) == [userId |-> u, username |-> u, rooms |-> rooms,
                             connections |-> 1]
        first == registerSocket(EmptyMap, a, "s1")
    IN /\ sockets = IF b = None
                    THEN MapSet(EmptyMap, "s1",
                                socket(a, IF r = None THEN {} ELSE {r}))
                    ELSE MapSet(MapSet(EmptyMap, "s1",
                                       socket(a, IF r = None THEN {} ELSE {r})),
                                "s2", socket(b, {}))
       /\ onlineUsers = IF b = None THEN first
                        ELSE registerSocket(first, b, "s2")
       /\ userActiveChannel = IF r = None THEN EmptyMap
                              ELSE setActiveRoom(EmptyMap, a, r)
       /\ reports = [u \in Users |-> IF u \in {a, b} THEN 1 ELSE 0]
       /\ lastEvent = Event("init", None, None, None, 0)
       /\ out = {}
       /\ fan = NoFan
       /\ notifications = rows
       /\ request = NoRequest
       /\ response = NoResponse

\* the presence queries, for the id of a user
queryUsersPresence == \E u \in Users : usersPresence(idText[u])
queryUserPresence == \E u \in Users : userPresence(idText[u])

NextFrame ==
  \/ createNotificationsForOfflineUsers
  \/ channelResolved
  \/ createNotificationsForDM
  \/ conversationResolved
  \/ insertResolved
  \/ queryUsersPresence
  \/ queryUserPresence
  \/ startTyping
  \/ userStoppedTyping

SpecFrame == InitFrame /\ [][NextFrame]_vars

\* ----------------------------------------------------- the spec's terms
\* sessionsOf(userId): the open transport sessions of the user
openSessions(userId) == {s \in DOMAIN sockets : sockets[s].userId = userId}
isOnline(userId) == openSessions(userId) # {}
activeRoomOf(userId) == MapGet(userActiveChannel, userId)
channelResolves ==
  fan.pc = "query" /\ fan.kind = "CHANNEL_MESSAGE" /\ fan'.pc # "query"
conversationResolves ==
  fan.pc = "query" /\ fan.kind = "DIRECT_MESSAGE" /\ fan'.pc # "query"
insertSucceeds == fan.pc = "insert" /\ fan'.inserted
created == {n.userId : n \in notifications' \ notifications}

\* ---------------------------------------------------------------- C1
C1_Classified ==
  channelResolves =>
    fan'.unseen = {u \in fan'.members \ {fan.senderId} :
                     ~ isOnline(u) \/ activeRoomOf(u) # fan.room}
C1_Notified ==
  (insertSucceeds /\ fan.kind = "CHANNEL_MESSAGE") =>
    /\ created = fan.unseen
    /\ {p.userId : p \in fan'.pushed} \subseteq fan.unseen
\* C1: channel fan-out classifies as unseen exactly the members other than
\* the sender that are offline or online with another active room, and the
\* rows inserted and the pushes sent are for those members only.
C1_ExactlyUnseen == [][C1_Classified /\ C1_Notified]_vars

\* a member viewing the channel is left out while another, online in
\* another room, has its row
C1_Witness ==
  /\ fan.pc = "done" /\ fan.kind = "CHANNEL_MESSAGE" /\ fan.inserted
  /\ fan.senderId \in fan.members
  /\ \E b \in fan.members, c \in fan.members :
       /\ isOnline(b) /\ activeRoomOf(b) = fan.room /\ b \notin fan.unseen
       /\ isOnline(c) /\ activeRoomOf(c) \notin {fan.room, None}
       /\ \E n \in notifications : n.userId = c
       /\ \A n \in notifications : n.userId = c

\* ---------------------------------------------------------------- C2
recipientOf(members, senderId) == CHOOSE r \in members \ {senderId} : TRUE
twoParty(members, senderId) ==
  senderId \in members /\ Cardinality(members) = 2
C2_Classified ==
  (conversationResolves /\ twoParty(fan'.members, fan.senderId)) =>
    LET r == recipientOf(fan'.members, fan.senderId)
    IN IF isOnline(r) /\ activeRoomOf(r) = fan.room
       THEN fan'.pc = "done" /\ notifications' = notifications
       ELSE fan'.pc = "insert" /\ fan'.unseen = {r}
C2_Inserted ==
  (insertSucceeds /\ fan.kind = "DIRECT_MESSAGE") =>
    /\ Cardinality(notifications' \ notifications) = 1
    /\ created = fan.unseen
\* C2: in a two-party conversation the direct-message fan-out inserts no
\* row when the recipient is online in that conversation, and otherwise
\* exactly one row, addressed to the recipient.
C2_ZeroOrOne == [][C2_Classified /\ C2_Inserted]_vars

\* the recipient is online, in no room, and has the one row
C2_Witness ==
  /\ fan.pc = "done" /\ fan.kind = "DIRECT_MESSAGE" /\ fan.inserted
  /\ twoParty(fan.members, fan.senderId)
  /\ LET r == recipientOf(fan.members, fan.senderId)
     IN /\ isOnline(r) /\ activeRoomOf(r) # fan.room
        /\ {n.userId : n \in notifications} = {r}
        /\ Cardinality(notifications) = 1

\* ---------------------------------------------------------------- C3
\* C3: a connection of a user that has another open session emits no
\* userOnline, and a disconnect that leaves the user a session emits no
\* userOffline.
C3_NoRepeatedPresence ==
  /\ (/\ lastEvent.op = "connection"
      /\ lastEvent.userId # None
      /\ Cardinality(openSessions(lastEvent.userId)) > 1)
     => \A e \in out : e.ev # "userOnline"
  /\ (/\ lastEvent.op = "disconnect"
      /\ lastEvent.userId # None
      /\ isOnline(lastEvent.userId))
     => \A e \in out : e.ev # "userOffline"

\* the second session of an online user has just connected: nothing is sent
C3_Witness ==
  /\ lastEvent.op = "connection"
  /\ lastEvent.userId # None
  /\ Cardinality(openSessions(lastEvent.userId)) = 2
  /\ out = {}

\* ---------------------------------------------------------------- C4
\* C4: getOnlineUsers() is exactly the set of users with an open session,
\* and no key of the registry holds an empty Set.
C4_OnlineUsersExact ==
  /\ getOnlineUsers = {u \in Users : isOnline(u)}
  /\ \A u \in DOMAIN onlineUsers : onlineUsers[u] # {}

\* a user has just drained to zero while another user is still online
C4_Witness ==
  /\ lastEvent.op = "disconnect"
  /\ lastEvent.userId # None
  /\ lastEvent.userId \notin getOnlineUsers
  /\ getOnlineUsers # {}

\* ---------------------------------------------------------------- C5
\* C5: a pair registered twice is held once: the user's Set is the set of
\* its open sessions, and one disconnect of the session removes it, and
\* removes the user when it was the only session.
C5_RegisteredOnce ==
  /\ \A u \in DOMAIN onlineUsers : onlineUsers[u] = openSessions(u)
  /\ lastEvent.op = "disconnect" =>
       /\ \A u \in DOMAIN onlineUsers : lastEvent.sid \notin onlineUsers[u]
       /\ ~ isOnline(lastEvent.userId) =>
            lastEvent.userId \notin DOMAIN onlineUsers

\* a session registered twice has been disconnected once, and its user
\* is gone from the registry
C5_Witness ==
  /\ lastEvent.op = "disconnect"
  /\ lastEvent.count = 2
  /\ lastEvent.userId # None
  /\ lastEvent.userId \notin DOMAIN onlineUsers

\* ---------------------------------------------------------------- C6
\* C6: between two drains of a user's sessions to zero the first-session
\* transition is reported at most once, repeated registrations included.
C6_FirstSessionOnce == \A u \in Users : reports[u] <= 1

\* ---------------------------------------------------------------- C7
C7_Pushed ==
  insertSucceeds =>
    fan'.pushed =
      UNION {{[userId |-> u, to |-> s] : s \in openSessions(u)} :
               u \in fan.unseen}
\* C7: the newNotification pushes of a fan-out go to every open session of
\* every notified user, and to no other session.
C7_EverySession == [][C7_Pushed]_vars

\* a notified user has two open sessions, and both were pushed to
C7_Witness ==
  /\ fan.pc = "done" /\ fan.inserted
  /\ \E u \in fan.unseen :
       /\ Cardinality(openSessions(u)) = 2
       /\ {p.to : p \in fan.pushed} = openSessions(u)

\* ---------------------------------------------------------------- C8
C8_Leave ==
  lastEvent'.op = "leaveRoom" =>
    IF activeRoomOf(lastEvent'.userId) = lastEvent'.room
    THEN ~ MapHas(userActiveChannel', lastEvent'.userId)
    ELSE MapGet(userActiveChannel', lastEvent'.userId)
           = activeRoomOf(lastEvent'.userId)
\* C8: a leaveRoom naming a room other than the recorded one leaves the
\* recorded room in place; one naming the recorded room removes it.
C8_GuardedClear == [][C8_Leave]_vars

\* a user that joined one room has just left the other: the room stays
C8_Witness ==
  /\ lastEvent.op = "leaveRoom"
  /\ lastEvent.userId # None
  /\ activeRoomOf(lastEvent.userId) \in Rooms \ {lastEvent.room}

\* ---------------------------------------------------------------- C9
\* C9: a user with no open session has no room in the Active-Room Tracker.
C9_NoRoomWhenOffline ==
  \A u \in Users : ~ isOnline(u) => activeRoomOf(u) = None

\* --------------------------------------------------------------- C10
C10_Classified ==
  channelResolves =>
    \A u \in fan'.members \ {fan.senderId} :
      (\A s \in openSessions(u) : fan.room \notin sockets[s].rooms)
        => u \in fan'.unseen
\* C10: channel fan-out classifies as unseen every other member none of
\* whose open sessions is subscribed to the channel's room.
C10_NoMissedDelivery == [][C10_Classified]_vars

\* --------------------------------------------------------------- C11
subscribed(userId, roomId) ==
  \E s \in openSessions(userId) : roomId \in sockets[s].rooms
C11_Classified ==
  channelResolves =>
    \A u \in fan'.members \ {fan.senderId} :
      subscribed(u, fan.room) => u \notin fan'.unseen
\* C11: channel fan-out never classifies as unseen another member that has
\* an open session subscribed to the channel's room, whatever the member's
\* other sessions joined or left since.
C11_NoDuplicateDelivery == [][C11_Classified]_vars

\* --------------------------------------------------------------- C12
firstSessionConnected ==
  /\ lastEvent.op = "connection"
  /\ lastEvent.userId # None
  /\ openSessions(lastEvent.userId) = {lastEvent.sid}
\* C12: after the connection that is a user's first session, userOnline for
\* that user has gone to every other connected socket and not to the
\* connecting one, and the connecting socket alone got an onlineUsers
\* snapshot, which lists exactly the users online now, that user included.
C12_FirstSessionAnnounced ==
  firstSessionConnected =>
    /\ {e.to : e \in {x \in out : x.ev = "userOnline"}}
         = DOMAIN sockets \ {lastEvent.sid}
    /\ \A e \in out : e.ev = "userOnline" => e.userId = lastEvent.userId
    /\ {e \in out : e.ev = "onlineUsers"}
         = {Emit("onlineUsers", lastEvent.sid, None,
                 {u \in Users : isOnline(u)}, None)}
    /\ \A e \in out : e.ev \in {"userOnline", "onlineUsers"}
    /\ isOnline(lastEvent.userId)

\* a first session connected while another socket was open
C12_Witness ==
  /\ firstSessionConnected
  /\ \E e \in out : e.ev = "userOnline" /\ e.to # lastEvent.sid
  /\ \E e \in out : e.ev = "onlineUsers" /\ Cardinality(e.users) = 2

\* --------------------------------------------------------------- C13
\* the step is a disconnect that closes the last open session of its user
emptiesSessions ==
  /\ lastEvent'.op = "disconnect"
  /\ lastEvent'.userId # None
  /\ openSessions(lastEvent'.userId) = {lastEvent'.sid}
C13_Step ==
  IF emptiesSessions
  THEN /\ out' = {Emit("userOffline", t, lastEvent'.userId, {}, None) :
                    t \in DOMAIN sockets'}
       /\ MapHas(onlineUsers, lastEvent'.userId)
       /\ ~ MapHas(onlineUsers', lastEvent'.userId)
  ELSE \A e \in out' : e.ev # "userOffline"
\* C13: a step emits userOffline exactly when it is a disconnect closing the
\* last open session of a user; that step removes the user from the registry
\* and addresses userOffline for that user to every socket still connected.
C13_OfflineExactlyOnDrain == [][C13_Step]_vars

\* the last session of a user closed while another socket was connected
C13_Witness ==
  /\ lastEvent.op = "disconnect"
  /\ lastEvent.userId # None
  /\ ~ isOnline(lastEvent.userId)
  /\ DOMAIN sockets # {}
  /\ {e.to : e \in out} = DOMAIN sockets

\* --------------------------------------------------------------- C19
typingRelayed == lastEvent.op \in {"startTyping", "userStoppedTyping"}
relayedEvent ==
  IF lastEvent.op = "startTyping" THEN "typing" ELSE "userStoppedTyping"
\* C19: a startTyping or userStoppedTyping from a socket delivers its event,
\* carrying the sender's user id, to exactly the other sockets subscribed to
\* the named room: not to the originating socket, not to a socket outside
\* the room, and to nobody when no other socket is in the room.
C19_TypingScopedToRoom ==
  typingRelayed =>
    /\ {e.to : e \in out}
         = {t \in DOMAIN sockets : lastEvent.room \in sockets[t].rooms}
             \ {lastEvent.sid}
    /\ \A e \in out : e.ev = relayedEvent /\ e.userId = lastEvent.userId

\* both sockets are in the room and one of them relayed: the other got it
C19_Witness ==
  /\ typingRelayed
  /\ \A t \in Sessions :
       MapHas(sockets, t) /\ lastEvent.room \in sockets[t].rooms
  /\ {e.to : e \in out} = Sessions \ {lastEvent.sid}

\* --------------------------------------------------------------- C20
\* the step is the disconnect of a socket whose user the registry lacks
disconnectsUnknown ==
  /\ lastEvent'.op = "disconnect"
  /\ \/ lastEvent'.userId = None
     \/ ~ MapHas(onlineUsers, lastEvent'.userId)
connectsWithoutUser ==
  lastEvent'.op = "connection" /\ lastEvent'.userId = None
C20_Step ==
  /\ disconnectsUnknown =>
       /\ onlineUsers' = onlineUsers
       /\ userActiveChannel' = userActiveChannel
       /\ \A e \in out' : e.ev # "userOffline"
  /\ connectsWithoutUser =>
       /\ onlineUsers' = onlineUsers
       /\ userActiveChannel' = userActiveChannel
       /\ \A e \in out' : e.ev # "userOnline"
\* C20: the disconnect of a socket that carries no user id, or whose user has
\* no entry in the registry, leaves the registry and the tracker as they were
\* and emits no userOffline; a connection without user id registers nothing
\* and emits no userOnline.
C20_UnknownUserNoOp == [][C20_Step]_vars

\* a socket without user id has disconnected while a user was registered
\* and had a room recorded
C20_Witness ==
  /\ lastEvent.op = "disconnect"
  /\ lastEvent.userId = None
  /\ \E u \in Users : MapHas(onlineUsers, u) /\ MapHas(userActiveChannel, u)

\* --------------------------------------------------------------- C17
\* the query of the call resolves without a channel or conversation
resolvesNotFound == fan.pc = "query" /\ fan'.pc = "done" /\ ~ fan'.found
C17_Step ==
  resolvesNotFound =>
    /\ notifications' = notifications
    /\ ~ fan'.inserted /\ fan'.pushed = {}
    /\ onlineUsers' = onlineUsers
    /\ userActiveChannel' = userActiveChannel
    /\ fan'.settled = "resolved"
    /\ fan.kind = "CHANNEL_MESSAGE" => fan'.status = "201"
\* C17: when the channel or conversation of the message is not found, the
\* fan-out ends there: no row is inserted, no newNotification is pushed, the
\* registry and the tracker stay as they were, and the call resolves, so
\* that createMessage answers 201.
C17_NotFoundDropped == [][C17_Step]_vars

\* a fan-out ended on a missing channel while a user was connected in a room
C17_Witness ==
  /\ fan.pc = "done" /\ ~ fan.found
  /\ notifications = {}
  /\ \E u \in Users \ Senders : isOnline(u) /\ activeRoomOf(u) # None

\* --------------------------------------------------------------- C18
\* the insert of the call's rows rejects
insertFails == fan.pc = "insert" /\ fan'.pc = "done" /\ ~ fan'.inserted
C18_Step ==
  insertFails =>
    /\ \A n \in notifications' : n.messageId # fan.messageId
    /\ fan'.pushed = {}
    /\ fan'.settled = "resolved"
    /\ fan'.messageId = fan.messageId
    /\ fan.kind = "CHANNEL_MESSAGE" => fan'.status = "201"
\* C18: when the insert of the notification rows fails, no row of that
\* message exists for any recipient, no newNotification is pushed for it,
\* and the call still resolves: createMessage answers 201 for the message
\* it had created.
C18_InsertFailureAbandonsBatch == [][C18_Step]_vars

\* the insert failed for two recipients, one of them connected
C18_Witness ==
  /\ fan.pc = "done" /\ fan.found /\ ~ fan.inserted
  /\ Cardinality(fan.unseen) = 2
  /\ \E u \in fan.unseen : isOnline(u)
  /\ fan.status = "201"

\* --------------------------------------------------------------- C14
\* the distinct trimmed entries of a comma-joined list, the blank ones out
trimmedIds(userIds) ==
  {trim(split(userIds)[i]) : i \in 1..Len(split(userIds))} \ {<<>>}
\* C14: the keys of a getUsersPresence response are exactly the distinct
\* trimmed non-blank entries of the comma-joined userIds it was given.
C14_KeysAreTrimmedIds ==
  (request.op = "getUsersPresence" /\ response.status = "200") =>
    DOMAIN response.data = trimmedIds(request.input)

\* --------------------------------------------------------------- C15
\* some user written as this id has an open session
hasOpenSession(id) == \E u \in Users : idText[u] = id /\ isOnline(u)
reflectsRegistry(id, p) ==
  (p.isOnline <=> hasOpenSession(id)) /\ p.lastSeen = Null
\* C15: a presence query that has just been answered reports, for every id
\* it answers for, isOnline true exactly when a user of that id has an open
\* session, and lastSeen null.
C15_PresenceReflectsRegistry ==
  /\ (lastEvent.op = "getUsersPresence" /\ response.status = "200") =>
       \A id \in DOMAIN response.data :
         reflectsRegistry(id, response.data[id])
  /\ (lastEvent.op = "getUserPresence" /\ response.status = "200") =>
       reflectsRegistry(request.input, response.data)

\* a query for two ids was answered: one is online, the other is not
C15_Witness ==
  /\ lastEvent.op = "getUsersPresence"
  /\ response.status = "200"
  /\ \E i, j \in DOMAIN response.data :
       /\ response.data[i].isOnline /\ hasOpenSession(i)
       /\ ~ response.data[j].isOnline /\ j \in {idText[u] : u \in Users}

\* --------------------------------------------------------------- C16
\* the content if it has at most 100 characters, else its first 100 and "..."
bodyOf(content) ==
  IF Len(content) <= 100 THEN content
  ELSE SubSeq(content, 1, 100) \o <<".", ".", ".">>
\* C16: the message of a channel notification is the sender's name, ": "
\* and the body of the content, that of a direct-message notification is
\* the body alone, where the body is the content itself up to 100
\* characters and its first 100 characters followed by "..." beyond; the
\* row and the pushed event carry the same message.
C16_BodyTruncatedAt100 ==
  /\ request.op = "CHANNEL_MESSAGE" =>
       /\ response.data.record
            = SenderName \o <<":", " ">> \o bodyOf(request.input)
       /\ response.data.event = response.data.record
  /\ request.op = "DIRECT_MESSAGE" =>
       /\ response.data.record = bodyOf(request.input)
       /\ response.data.event = response.data.record

\* a direct message of 101 characters was cut to its first 100 and "..."
C16_Witness ==
  /\ request.op = "DIRECT_MESSAGE"
  /\ Len(request.input) = 101
  /\ Len(response.data.event) = 103
  /\ SubSeq(response.data.event, 1, 100) = SubSeq(request.input, 1, 100)
  /\ response.data.event[103] = "."

\* --------------------------------------------------------------- C21
\* the room recorded for v after the step, given the event of the step
registerAfter(v) ==
  IF lastEvent'.userId = v /\ lastEvent'.op = "joinRoom"
  THEN lastEvent'.room
  ELSE IF /\ lastEvent'.userId = v /\ lastEvent'.op = "leaveRoom"
          /\ activeRoomOf(v) = lastEvent'.room
  THEN None
  ELSE activeRoomOf(v)
C21_Step ==
  \A v \in Users \cup {None} :
    MapGet(userActiveChannel', v) = registerAfter(v)
\* C21: the room recorded for a user is that of the user's most recent
\* joinRoom, from whichever session, unless a later leaveRoom named that
\* room: a joinRoom records its room over any other, a leaveRoom naming the
\* recorded room empties the record, and no other event changes it.
C21_LastWriteWins == [][C21_Step]_vars

\* s2 has just joined a room while s1 of the same user is in the other
\* room: the record is the room of s2
C21_Witness ==
  /\ lastEvent.op = "joinRoom"
  /\ lastEvent.userId \in Users
  /\ activeRoomOf(lastEvent.userId) = lastEvent.room
  /\ \E s \in openSessions(lastEvent.userId) \ {lastEvent.sid} :
       sockets[s].rooms = Rooms \ {lastEvent.room}

\* --------------------------------------------------------------- C22
\* the users whose Set in the registry holds the session id
ownersOf(sid) == {u \in DOMAIN onlineUsers : sid \in onlineUsers[u]}
\* C22: a session id is in the Set of at most one user, of exactly one
\* while its socket is connected, and of none once it is closed.
C22_SessionOfOneUser ==
  \A sid \in Sessions :
    /\ Cardinality(ownersOf(sid)) <= 1
    /\ MapHas(sockets, sid) => Cardinality(ownersOf(sid)) = 1
    /\ ~ MapHas(sockets, sid) => ownersOf(sid) = {}

\* --------------------------------------------------------------- C30
\* C30: a socket that has just been admitted and connected is registered
\* under the user id authentication verified, and carries that id.
C30_RegisteredAsVerified ==
  lastEvent.op = "connection" =>
    /\ lastEvent.verified \in Users
    /\ sockets[lastEvent.sid].userId = lastEvent.verified
    /\ MapHas(onlineUsers, lastEvent.verified)
    /\ lastEvent.sid \in onlineUsers[lastEvent.verified]

\* --------------------------------------------------------------- C23
C23_Step ==
  lastEvent'.op = "requestOnlineUsers" =>
    /\ out' = {Emit("onlineUsers", lastEvent'.sid, None,
                    {u \in Users : isOnline(u)}, None)}
    /\ onlineUsers' = onlineUsers
    /\ userActiveChannel' = userActiveChannel
    /\ sockets' = sockets
\* C23: a requestOnlineUsers emits one onlineUsers event, to the requesting
\* socket alone, listing exactly the users that have an open session, and
\* leaves the registry and the tracker as they were.
C23_SnapshotToRequester == [][C23_Step]_vars

\* a socket asked while two sockets of different users were connected
C23_Witness ==
  /\ lastEvent.op = "requestOnlineUsers"
  /\ Cardinality(DOMAIN sockets) = 2
  /\ \E e \in out : Cardinality(e.users) = 2
  /\ Cardinality(out) = 1

\* --------------------------------------------------------------- C25
\* C25: however the connections of a user's sockets are ordered, the
\* connections made since the user last had no session reported the first
\* session exactly once: once for a user with one or two open sessions,
\* never for a user with none.
C25_OneFirstSession ==
  \A u \in Users : reports[u] = IF isOnline(u) THEN 1 ELSE 0

\* two sockets of one user have connected one after the other, in either
\* order, and the first session was reported once
C25_Witness ==
  \E u \in Users :
    /\ openSessions(u) = Sessions
    /\ lastEvent.op = "connection" /\ lastEvent.userId = u
    /\ reports[u] = 1

\* --------------------------------------------------------------- C29
\* C29: no row of the notifications table and no newNotification pushed is
\* addressed to the sender of its message.
C29_NeverToSender ==
  /\ \A n \in notifications : n.userId # n.senderId
  /\ \A p \in fan.pushed : p.userId # fan.senderId

\* ---------------------------------------------------------------- C24
\* C24: every message that was created successfully, in a channel or in a
\* conversation, had its fan-out invoked exactly once, after it was persisted
\* and emitted to its room and before the response was sent.
C24_FanoutOnEveryCreate ==
  response.status = "201" =>
    response.data = <<"persisted", "emitted", "fanout", "responded">>

\* ---------------------------------------------------------------- C26
\* nothing is classified while the membership query is pending
C26_Pending ==
  fan.pc = "query" => fan.members = {} /\ fan.unseen = {}
\* the step that ends the query classifies every member against the maps
\* of that step, and writes neither map
C26_Classifies ==
  (channelResolves /\ fan'.found) =>
    /\ registry' = registry
    /\ \A u \in fan'.members \ {fan.senderId} :
         u \in fan'.unseen <=>
           ~ (isOnline(u) /\ activeRoomOf(u) = fan.room)
    /\ fan'.unseen \subseteq fan'.members \ {fan.senderId}
\* C26: the audience of a fan-out is computed from the registry and the
\* tracker as they are at the step after membership resolution, not as they
\* were when the message was created: all members are classified in that one
\* step against one state, so the connects, disconnects, joins and leaves in
\* between change the audience.
C26_AudienceAtFanoutTime == [][C26_Pending /\ C26_Classifies]_vars

\* no other user had a session when the message was created, and a member
\* that connected and joined the channel since is left out of the audience
C26_Witness ==
  /\ request.op = "createMessage"
  /\ fan.found /\ fan.sessionsAtCall = 0
  /\ \E u \in fan.members \ {fan.senderId} :
       /\ u \notin fan.unseen
       /\ \E v \in fan.unseen : v # u

\* ---------------------------------------------------------------- C27
\* the sessions that are open for the unseen members
sessionsToPush == {s \in DOMAIN sockets : sockets[s].userId \in fan.unseen}
C27_Step ==
  insertSucceeds =>
    /\ {p.to : p \in fan'.pushed} = sessionsToPush
    /\ \A p \in fan'.pushed : sockets[p.to].userId = p.userId
    /\ created = fan.unseen
    /\ fan'.settled = "resolved"
    /\ sockets' = sockets
\* C27: the live pushes of a fan-out go to the sessions the unseen members
\* have when the insert has completed: a session closed while the fan-out was
\* in flight is skipped, without an error and with the rows of all unseen
\* members and the pushes to the other sessions as they would be, and a
\* session opened while it was in flight is pushed to.
C27_PushToSessionsAtInsert == [][C27_Step]_vars

\* both sessions were open for other users when the message was created,
\* both other users are unseen and have their rows, and one session is left
\* to push to: the other was closed in flight
C27_Witness ==
  /\ request.op = "createMessage"
  /\ fan.pc = "done" /\ fan.inserted /\ fan.settled = "resolved"
  /\ fan.sessionsAtCall = 2
  /\ fan.unseen = Users \ {fan.senderId}
  /\ {n.userId : n \in notifications} = fan.unseen
  /\ Cardinality(fan.pushed) = 1

\* no other user had a session when the message was created, and a session
\* opened in flight was pushed to
C27_OpenedInFlight ==
  /\ request.op = "createMessage"
  /\ fan.pc = "done" /\ fan.inserted
  /\ fan.sessionsAtCall = 0
  /\ fan.pushed # {}

\* ---------------------------------------------------------------- C28
\* the fan-out awaits the membership query or the insert
pending == fan.pc \in {"query", "insert"}
\* each handler runs to its end on the maps as they are, and leaves the
\* fan-out where it was
C28_Presence ==
  /\ getUserPresence
  /\ request'.input = idText["u1"]
  /\ response'.data.isOnline = isOnline("u1")
  /\ fan' = fan
C28_Presences ==
  /\ getUsersPresence
  /\ request'.input = idText["u1"]
  /\ response'.data[idText["u1"]].isOnline = isOnline("u1")
  /\ fan' = fan
C28_Snapshot ==
  /\ requestOnlineUsers
  /\ \A e \in out' : e.users = {u \in Users : isOnline(u)}
  /\ out' # {}
  /\ fan' = fan
C28_Connects ==
  Connect /\ DOMAIN sockets' # DOMAIN sockets /\ fan' = fan
C28_Disconnects ==
  disconnect /\ DOMAIN sockets' # DOMAIN sockets /\ fan' = fan
C28_Joins ==
  joinRoom /\ userActiveChannel' # userActiveChannel /\ fan' = fan
C28_Leaves ==
  leaveRoom /\ fan' = fan
\* C28: a fan-out that awaits the membership query or the insert blocks
\* nothing: the presence queries, requestOnlineUsers, connect, disconnect,
\* joinRoom and leaveRoom are enabled, run to completion and see the registry
\* and the tracker as they are while it is pending.
C28_FanoutBlocksNothing ==
  pending =>
    /\ ENABLED C28_Presence
    /\ ENABLED C28_Presences
    /\ (Sessions \ DOMAIN sockets # {}) => ENABLED C28_Connects
    /\ (DOMAIN sockets # {}) =>
         /\ ENABLED C28_Snapshot
         /\ ENABLED C28_Joins
         /\ ENABLED C28_Leaves
         /\ ENABLED C28_Disconnects

\* the fan-out awaits the insert, and a member it classified as unseen is
\* now online in the room: its connect or joinRoom ran while it was pending
C28_Witness ==
  /\ fan.pc = "insert"
  /\ \E u \in fan.unseen : isOnline(u) /\ activeRoomOf(u) = fan.room

\* ---------------------------------------------------------------- C31
\* the pair of a push has its row
persisted(p) ==
  \E n \in notifications :
    /\ n.userId = p.userId
    /\ n.messageId = fan.messageId
    /\ n.room = fan.room
    /\ n.type = fan.kind
\* C31: a newNotification event for a recipient and a message is emitted
\* only after the notification record of that pair was persisted: there is
\* no event while the insert has not returned, when it failed, or when no
\* member is unseen.
C31_PersistBeforePush ==
  /\ \A p \in fan.pushed : persisted(p)
  /\ fan.pc \in {"idle", "query", "insert"} => fan.pushed = {}
  /\ (~ fan.inserted \/ fan.unseen = {}) => fan.pushed = {}

\* the insert returned, and a session of a recipient was pushed the event of
\* a persisted row
C31_Witness ==
  /\ fan.pc = "done" /\ fan.inserted
  /\ \E p \in fan.pushed : persisted(p) /\ p.userId \in fan.unseen

\* ---------------------------------------------------------------- C32
\* the step sent the presence event ev of user u to some socket
sent(ev, u) == \E e \in out' : e.ev = ev /\ e.userId = u
\* reports[u]: the userOnline events of u that no userOffline has followed
C32_Step ==
  \A u \in Users :
    LET online  == reports'[u] > reports[u]
        offline == reports'[u] < reports[u]
    IN /\ sent("userOnline", u) => online
       /\ sent("userOffline", u) => offline
       /\ online => /\ reports[u] = 0 /\ reports'[u] = 1
                    /\ lastEvent'.op = "connection" /\ lastEvent'.userId = u
       /\ offline => /\ reports[u] = 1 /\ reports'[u] = 0
                     /\ lastEvent'.op = "disconnect" /\ lastEvent'.userId = u
       /\ reports'[u] = IF MapHas(onlineUsers', u) THEN 1 ELSE 0
\* C32: over the connects and disconnects of sessions with unique ids, the
\* presence events of a user alternate userOnline, userOffline, userOnline,
\* ..., the first being userOnline; the userOnline events outnumber the
\* userOffline events by one exactly when the user is in the registry, and
\* by none otherwise.
C32_PresenceAlternates == [][C32_Step]_vars

\* a user that was reported online has just been reported offline to an
\* open session, and is out of the registry
C32_Witness ==
  \E u \in Users :
    /\ lastEvent.op = "disconnect" /\ lastEvent.userId = u
    /\ \E e \in out : e.ev = "userOffline" /\ e.userId = u
    /\ reports[u] = 0 /\ ~ MapHas(onlineUsers, u)

\* ---------------------------------------------------------------- C33
\* the open sessions that were admitted for the user
sessionsOf(u) == {s \in DOMAIN sockets : sockets[s].username = u}
\* a new session of the user has just connected
connected(u) == lastEvent.op = "connection" /\ lastEvent.verified = u
\* the user is out of the registry, a presence query answers isOnline false
\* for it, and its userOffline has just gone out to every open socket
reportedOffline(u) ==
  /\ u \notin getOnlineUsers
  /\ ~ presenceOf(idText[u]).isOnline
  /\ lastEvent.op = "disconnect" /\ lastEvent.userId = u
  /\ reports[u] = 0
  /\ out = {Emit("userOffline", t, u, {}, None) : t \in DOMAIN sockets}
\* C33: when every open session of a user disconnects and no new session of
\* that user connects, then eventually the user is absent from
\* onlineUsers(), presence queries report isOnline false for it, and a
\* userOffline event for it has been broadcast.
C33_EventuallyOffline ==
  \A u \in Users :
    (sessionsOf(u) # {}) ~> (reportedOffline(u) \/ connected(u))

\* the same for the users the registry holds
C33_RegisteredEventuallyOffline ==
  \A u \in Users :
    MapHas(onlineUsers, u) ~> (reportedOffline(u) \/ connected(u))

\* ---------------------------------------------------------------- C34
\* the step sent the onlineUsers snapshot to socket t
snapshotTo(t) == \E e \in out' : e.ev = "onlineUsers" /\ e.to = t
C34_Step ==
  /\ (lastEvent'.op = "connection" /\ MapHas(onlineUsers, lastEvent'.userId))
       => \A t \in Sessions : ~ snapshotTo(t)
  /\ \A t \in Sessions :
       snapshotTo(t) =>
         /\ lastEvent'.sid = t
         /\ \/ lastEvent'.op = "requestOnlineUsers"
            \/ /\ lastEvent'.op = "connection"
               /\ ~ MapHas(onlineUsers, lastEvent'.userId)
\* C34: a session that connects as an additional session of a user that is
\* online already is sent no onlineUsers snapshot on connect; a snapshot
\* goes to it only in answer to its own requestOnlineUsers.
C34_NoSnapshotForAdditionalSession == [][C34_Step]_vars

\* the second session of a user has just connected, and nothing was sent
C34_Witness ==
  /\ lastEvent.op = "connection"
  /\ lastEvent.userId \in Users
  /\ Cardinality(onlineUsers[lastEvent.userId]) = 2
  /\ sockets[lastEvent.sid].connections = 1
  /\ out = {}

\* ---------------------------------------------------------------- C35
\* a step of the fan-out, of a presence query, of a typing relay
fanoutStep == fan' # fan
queryStep == request' # request
typingStep ==
  /\ lastEvent'.op \in {"startTyping", "userStoppedTyping"}
  /\ lastEvent' # lastEvent \/ out' # out
C35_Step ==
  (fanoutStep \/ queryStep \/ typingStep) =>
    /\ onlineUsers' = onlineUsers
    /\ userActiveChannel' = userActiveChannel
    /\ notifications \subseteq notifications'
    /\ \A n \in notifications' \ notifications :
         ~ n.isRead /\ n.messageId = fan.messageId
    /\ (queryStep \/ typingStep) => notifications' = notifications
\* C35: the fan-out for a channel or a direct message, the presence queries
\* and the typing relays leave the Connection Registry and the Active-Room
\* Tracker as they are, and the fan-out only adds notification records with
\* isRead = false: a record that exists is neither changed nor deleted.
C35_ReadOnlyButAppend == [][C35_Step]_vars

\* a fan-out has inserted its rows next to a read row of an earlier message,
\* a presence query was answered and a typing relay has run, on a registry
\* and a tracker that are not empty
C35_Witness ==
  /\ fan.pc = "done" /\ fan.inserted
  /\ \E n \in notifications : n.messageId = fan.messageId /\ ~ n.isRead
  /\ \E n \in notifications : n.messageId = EarlierMessage /\ n.isRead
  /\ request.op \in {"getUsersPresence", "getUserPresence"}
  /\ lastEvent.op \in {"startTyping", "userStoppedTyping"}
  /\ onlineUsers # EmptyMap /\ userActiveChannel # EmptyMap

====
